---- MODULE Spec2Model ----
(***************************************************************************)
(* A model of the fixture scripts of game-stats-api:                       *)
(*   scripts/validate_fixtures.py      the generic normalizer              *)
(*   scripts/normalize_auth_users.py   the authman.user fixer              *)
(*   scripts/convert_games_fixture.py  the games.game field fixer          *)
(*   scripts/generate_fixtures.py      the dump-to-fixture extraction      *)
(*                                                                         *)
(* Strings whose characters the code inspects (field values, dump cells)   *)
(* are sequences of one-character strings.  Field names are atoms; a model *)
(* label is the sequence of its dot-separated segments, so that            *)
(* model_label.split('.') is the label itself and the missing or empty     *)
(* label is <<>>.  A JSON value is a tagged record [t, v]; the elements of *)
(* a list are tagged values too.  An object may lack the "fields" key.     *)
(* A character is written as itself when it is printable ASCII, as "\t",   *)
(* "\n", "\f", "\r" for those controls, and as uXXXX (its code point in    *)
(* upper-case hexadecimal) otherwise, lone surrogates included.            *)
(***************************************************************************)
EXTENDS Integers, Sequences, FiniteSets, TLC

VARIABLES
    path,       \* which fixture file is the RecordFile under study
    file,       \* the contents of that file
    bak,        \* the contents of <file>.bak
    fixed,      \* the contents of scripts/fixtures/games_game_fixed.json
    fixedBak,   \* the contents of games_game_fixed.json.bak
    target,     \* the file the latest validate_file was called for
    pc,         \* where a running validate_file stands ("idle": none running)
    pending,    \* validate_file's in-memory data, to be written
    preInv,     \* the contents of the file when the latest invocation began
    changePre,  \* the contents before the latest invocation that changed the file
    last,       \* what the latest invocation did and reported
    prev,       \* what the invocation before it did and reported
    stream,     \* the lines of the dump that generate_fixtures reads
    pos,        \* how many lines of it have been read
    gpc,        \* where generate_fixtures stands
    table,      \* the table of the COPY block being read
    cols,       \* its column list
    rows,       \* the rows read for it
    fixtures,   \* the records generate_fixtures has appended
    blockBase,  \* how many records there were when the block began
    eofInBlock, \* the stream ended inside a block
    out         \* the fixture files generate_fixtures has written

repairVars == <<path, file, bak, fixed, fixedBak, target, pc, pending, preInv,
                changePre, last, prev>>
extractVars == <<stream, pos, gpc, table, cols, rows, fixtures, blockBase, eofInBlock, out>>
vars == <<path, file, bak, fixed, fixedBak, target, pc, pending, preInv, changePre,
          last, prev,
          stream, pos, gpc, table, cols, rows, fixtures, blockBase, eofInBlock, out>>

(***************************************************************************)
(* Bounds of the model.                                                    *)
(***************************************************************************)
MaxRecords == 2
MaxRows == 2

(***************************************************************************)
(* Characters.  A printable ASCII character is written as itself, the tab, *)
(* line feed, form feed and carriage return "\t", "\n", "\f", "\r", and any *)
(* other character uXXXX after its code point in hexadecimal ("u0663" is   *)
(* ARABIC-INDIC DIGIT THREE, "uD800" a lone surrogate).                    *)
(***************************************************************************)
\* the decimal digits of Unicode (category Nd), zero to nine in each script:
\* the characters \d of a str pattern matches and int() reads as digits
DigitBlocks ==
    {<<"0", "1", "2", "3", "4", "5", "6", "7", "8", "9">>,
     <<"u0660", "u0661", "u0662", "u0663", "u0664", "u0665", "u0666", "u0667", "u0668", "u0669">>,
     <<"u06F0", "u06F1", "u06F2", "u06F3", "u06F4", "u06F5", "u06F6", "u06F7", "u06F8", "u06F9">>,
     <<"u07C0", "u07C1", "u07C2", "u07C3", "u07C4", "u07C5", "u07C6", "u07C7", "u07C8", "u07C9">>,
     <<"u0966", "u0967", "u0968", "u0969", "u096A", "u096B", "u096C", "u096D", "u096E", "u096F">>,
     <<"u09E6", "u09E7", "u09E8", "u09E9", "u09EA", "u09EB", "u09EC", "u09ED", "u09EE", "u09EF">>,
     <<"u0A66", "u0A67", "u0A68", "u0A69", "u0A6A", "u0A6B", "u0A6C", "u0A6D", "u0A6E", "u0A6F">>,
     <<"u0AE6", "u0AE7", "u0AE8", "u0AE9", "u0AEA", "u0AEB", "u0AEC", "u0AED", "u0AEE", "u0AEF">>,
     <<"u0B66", "u0B67", "u0B68", "u0B69", "u0B6A", "u0B6B", "u0B6C", "u0B6D", "u0B6E", "u0B6F">>,
     <<"u0BE6", "u0BE7", "u0BE8", "u0BE9", "u0BEA", "u0BEB", "u0BEC", "u0BED", "u0BEE", "u0BEF">>,
     <<"u0C66", "u0C67", "u0C68", "u0C69", "u0C6A", "u0C6B", "u0C6C", "u0C6D", "u0C6E", "u0C6F">>,
     <<"u0CE6", "u0CE7", "u0CE8", "u0CE9", "u0CEA", "u0CEB", "u0CEC", "u0CED", "u0CEE", "u0CEF">>,
     <<"u0D66", "u0D67", "u0D68", "u0D69", "u0D6A", "u0D6B", "u0D6C", "u0D6D", "u0D6E", "u0D6F">>,
     <<"u0DE6", "u0DE7", "u0DE8", "u0DE9", "u0DEA", "u0DEB", "u0DEC", "u0DED", "u0DEE", "u0DEF">>,
     <<"u0E50", "u0E51", "u0E52", "u0E53", "u0E54", "u0E55", "u0E56", "u0E57", "u0E58", "u0E59">>,
     <<"u0ED0", "u0ED1", "u0ED2", "u0ED3", "u0ED4", "u0ED5", "u0ED6", "u0ED7", "u0ED8", "u0ED9">>,
     <<"u0F20", "u0F21", "u0F22", "u0F23", "u0F24", "u0F25", "u0F26", "u0F27", "u0F28", "u0F29">>,
     <<"u1040", "u1041", "u1042", "u1043", "u1044", "u1045", "u1046", "u1047", "u1048", "u1049">>,
     <<"u1090", "u1091", "u1092", "u1093", "u1094", "u1095", "u1096", "u1097", "u1098", "u1099">>,
     <<"u17E0", "u17E1", "u17E2", "u17E3", "u17E4", "u17E5", "u17E6", "u17E7", "u17E8", "u17E9">>,
     <<"u1810", "u1811", "u1812", "u1813", "u1814", "u1815", "u1816", "u1817", "u1818", "u1819">>,
     <<"u1946", "u1947", "u1948", "u1949", "u194A", "u194B", "u194C", "u194D", "u194E", "u194F">>,
     <<"u19D0", "u19D1", "u19D2", "u19D3", "u19D4", "u19D5", "u19D6", "u19D7", "u19D8", "u19D9">>,
     <<"u1A80", "u1A81", "u1A82", "u1A83", "u1A84", "u1A85", "u1A86", "u1A87", "u1A88", "u1A89">>,
     <<"u1A90", "u1A91", "u1A92", "u1A93", "u1A94", "u1A95", "u1A96", "u1A97", "u1A98", "u1A99">>,
     <<"u1B50", "u1B51", "u1B52", "u1B53", "u1B54", "u1B55", "u1B56", "u1B57", "u1B58", "u1B59">>,
     <<"u1BB0", "u1BB1", "u1BB2", "u1BB3", "u1BB4", "u1BB5", "u1BB6", "u1BB7", "u1BB8", "u1BB9">>,
     <<"u1C40", "u1C41", "u1C42", "u1C43", "u1C44", "u1C45", "u1C46", "u1C47", "u1C48", "u1C49">>,
     <<"u1C50", "u1C51", "u1C52", "u1C53", "u1C54", "u1C55", "u1C56", "u1C57", "u1C58", "u1C59">>,
     <<"uA620", "uA621", "uA622", "uA623", "uA624", "uA625", "uA626", "uA627", "uA628", "uA629">>,
     <<"uA8D0", "uA8D1", "uA8D2", "uA8D3", "uA8D4", "uA8D5", "uA8D6", "uA8D7", "uA8D8", "uA8D9">>,
     <<"uA900", "uA901", "uA902", "uA903", "uA904", "uA905", "uA906", "uA907", "uA908", "uA909">>,
     <<"uA9D0", "uA9D1", "uA9D2", "uA9D3", "uA9D4", "uA9D5", "uA9D6", "uA9D7", "uA9D8", "uA9D9">>,
     <<"uA9F0", "uA9F1", "uA9F2", "uA9F3", "uA9F4", "uA9F5", "uA9F6", "uA9F7", "uA9F8", "uA9F9">>,
     <<"uAA50", "uAA51", "uAA52", "uAA53", "uAA54", "uAA55", "uAA56", "uAA57", "uAA58", "uAA59">>,
     <<"uABF0", "uABF1", "uABF2", "uABF3", "uABF4", "uABF5", "uABF6", "uABF7", "uABF8", "uABF9">>,
     <<"uFF10", "uFF11", "uFF12", "uFF13", "uFF14", "uFF15", "uFF16", "uFF17", "uFF18", "uFF19">>,
     <<"u104A0", "u104A1", "u104A2", "u104A3", "u104A4", "u104A5", "u104A6", "u104A7", "u104A8", "u104A9">>,
     <<"u10D30", "u10D31", "u10D32", "u10D33", "u10D34", "u10D35", "u10D36", "u10D37", "u10D38", "u10D39">>,
     <<"u11066", "u11067", "u11068", "u11069", "u1106A", "u1106B", "u1106C", "u1106D", "u1106E", "u1106F">>,
     <<"u110F0", "u110F1", "u110F2", "u110F3", "u110F4", "u110F5", "u110F6", "u110F7", "u110F8", "u110F9">>,
     <<"u11136", "u11137", "u11138", "u11139", "u1113A", "u1113B", "u1113C", "u1113D", "u1113E", "u1113F">>,
     <<"u111D0", "u111D1", "u111D2", "u111D3", "u111D4", "u111D5", "u111D6", "u111D7", "u111D8", "u111D9">>,
     <<"u112F0", "u112F1", "u112F2", "u112F3", "u112F4", "u112F5", "u112F6", "u112F7", "u112F8", "u112F9">>,
     <<"u11450", "u11451", "u11452", "u11453", "u11454", "u11455", "u11456", "u11457", "u11458", "u11459">>,
     <<"u114D0", "u114D1", "u114D2", "u114D3", "u114D4", "u114D5", "u114D6", "u114D7", "u114D8", "u114D9">>,
     <<"u11650", "u11651", "u11652", "u11653", "u11654", "u11655", "u11656", "u11657", "u11658", "u11659">>,
     <<"u116C0", "u116C1", "u116C2", "u116C3", "u116C4", "u116C5", "u116C6", "u116C7", "u116C8", "u116C9">>,
     <<"u11730", "u11731", "u11732", "u11733", "u11734", "u11735", "u11736", "u11737", "u11738", "u11739">>,
     <<"u118E0", "u118E1", "u118E2", "u118E3", "u118E4", "u118E5", "u118E6", "u118E7", "u118E8", "u118E9">>,
     <<"u11950", "u11951", "u11952", "u11953", "u11954", "u11955", "u11956", "u11957", "u11958", "u11959">>,
     <<"u11C50", "u11C51", "u11C52", "u11C53", "u11C54", "u11C55", "u11C56", "u11C57", "u11C58", "u11C59">>,
     <<"u11D50", "u11D51", "u11D52", "u11D53", "u11D54", "u11D55", "u11D56", "u11D57", "u11D58", "u11D59">>,
     <<"u11DA0", "u11DA1", "u11DA2", "u11DA3", "u11DA4", "u11DA5", "u11DA6", "u11DA7", "u11DA8", "u11DA9">>,
     <<"u16A60", "u16A61", "u16A62", "u16A63", "u16A64", "u16A65", "u16A66", "u16A67", "u16A68", "u16A69">>,
     <<"u16AC0", "u16AC1", "u16AC2", "u16AC3", "u16AC4", "u16AC5", "u16AC6", "u16AC7", "u16AC8", "u16AC9">>,
     <<"u16B50", "u16B51", "u16B52", "u16B53", "u16B54", "u16B55", "u16B56", "u16B57", "u16B58", "u16B59">>,
     <<"u1D7CE", "u1D7CF", "u1D7D0", "u1D7D1", "u1D7D2", "u1D7D3", "u1D7D4", "u1D7D5", "u1D7D6", "u1D7D7">>,
     <<"u1D7D8", "u1D7D9", "u1D7DA", "u1D7DB", "u1D7DC", "u1D7DD", "u1D7DE", "u1D7DF", "u1D7E0", "u1D7E1">>,
     <<"u1D7E2", "u1D7E3", "u1D7E4", "u1D7E5", "u1D7E6", "u1D7E7", "u1D7E8", "u1D7E9", "u1D7EA", "u1D7EB">>,
     <<"u1D7EC", "u1D7ED", "u1D7EE", "u1D7EF", "u1D7F0", "u1D7F1", "u1D7F2", "u1D7F3", "u1D7F4", "u1D7F5">>,
     <<"u1D7F6", "u1D7F7", "u1D7F8", "u1D7F9", "u1D7FA", "u1D7FB", "u1D7FC", "u1D7FD", "u1D7FE", "u1D7FF">>,
     <<"u1E140", "u1E141", "u1E142", "u1E143", "u1E144", "u1E145", "u1E146", "u1E147", "u1E148", "u1E149">>,
     <<"u1E2F0", "u1E2F1", "u1E2F2", "u1E2F3", "u1E2F4", "u1E2F5", "u1E2F6", "u1E2F7", "u1E2F8", "u1E2F9">>,
     <<"u1E950", "u1E951", "u1E952", "u1E953", "u1E954", "u1E955", "u1E956", "u1E957", "u1E958", "u1E959">>,
     <<"u1FBF0", "u1FBF1", "u1FBF2", "u1FBF3", "u1FBF4", "u1FBF5", "u1FBF6", "u1FBF7", "u1FBF8", "u1FBF9">>}

Digits == UNION {{b[i] : i \in 1..10} : b \in DigitBlocks}

(***************************************************************************)
(* JSON values and Python strings.                                         *)
(***************************************************************************)
JStr(s) == [t |-> "str", v |-> s]
JBool(b) == [t |-> "bool", v |-> b]
JInt(n) == [t |-> "int", v |-> n]
JList(l) == [t |-> "list", v |-> l]

IsStr(x) == x.t = "str"

\* obj.get('fields', {}): an object may lack the key "fields"
HasFields(obj) == "fields" \in DOMAIN obj
FieldsOf(obj) == IF HasFields(obj) THEN obj.fields ELSE <<>>

\* s.replace(' ', 'T'): every space, not only the first
ReplaceSpaceT(s) == [i \in 1..Len(s) |-> IF s[i] = " " THEN "T" ELSE s[i]]

\* c in s, for a one-character c
Contains(s, c) == \E i \in 1..Len(s) : s[i] = c

\* s[n:], n counted from 0 as in Python
From(s, n) == IF Len(s) > n THEN SubSeq(s, n + 1, Len(s)) ELSE <<>>

\* \d{4}-\d{2}-\d{2} at the start of s
ReDate(s) ==
    /\ Len(s) >= 10
    /\ \A i \in {1, 2, 3, 4, 6, 7, 9, 10} : s[i] \in Digits
    /\ s[5] = "-" /\ s[8] = "-"

\* \d{2}:\d{2}:\d{2} at characters 12..19 of s
ReTime(s) ==
    /\ Len(s) >= 19
    /\ \A i \in {12, 13, 15, 16, 18, 19} : s[i] \in Digits
    /\ s[14] = ":" /\ s[17] = ":"

\* re.match(r'\d{4}-\d{2}-\d{2} \d{2}:\d{2}:\d{2}', v): anchored at the start only
ReNaive(s) == ReDate(s) /\ ReTime(s) /\ s[11] = " "

\* ReNoZone with the $ of the pattern forgotten
ReNoZoneUnanchored(s) == ReDate(s) /\ ReTime(s) /\ s[11] = "T"

\* re.match(r'\d{4}-\d{2}-\d{2}T\d{2}:\d{2}:\d{2}$', v): $ is the end, or the
\* place before a final newline
ReNoZone(s) ==
    /\ ReDate(s) /\ ReTime(s) /\ s[11] = "T"
    /\ \/ Len(s) = 19
       \/ Len(s) = 20 /\ s[20] = "\n"

(***************************************************************************)
(* Files.  A file that is being written has been truncated by open(.., 'w') *)
(* and holds nothing, or a prefix of what is written: Torn.  The bytes of  *)
(* a JSON file are its data and its layout; "indent2" is the layout that   *)
(* json.dumps(data, indent=2, ensure_ascii=False) produces, "other" another *)
(* text of the same data with LF line ends (the \u escapes of              *)
(* generate_fixtures, a hand edit), "crlf" that text with its line ends    *)
(* written CR LF.                                                           *)
(***************************************************************************)
NoFile == [kind |-> "none"]
Torn == [kind |-> "torn"]
Json(layout, data) == [kind |-> "json", layout |-> layout, data |-> data]

\* json.dumps(data, indent=2, ensure_ascii=False)
Dumps(data) == Json("indent2", data)

\* json.loads(text) raises on a text that is no JSON document
ParseFails(f) == f.kind # "json"

\* path.read_text(encoding='utf-8') of a JSON file: the text mode reads every
\* CR LF as LF
ReadText(f) == IF f.layout = "crlf" THEN Json("other", f.data) ELSE f

Hex == {"0", "1", "2", "3", "4", "5", "6", "7", "8", "9", "A", "B", "C", "D", "E", "F"}

\* the surrogate code points U+D800 to U+DFFF: json.loads reads an escaped lone
\* surrogate into a str, and the utf-8 codec refuses to encode it
Surrogates ==
    {"uD" \o a \o b \o c : a \in {"8", "9", "A", "B", "C", "D", "E", "F"},
                           b \in Hex, c \in Hex}

\* the text of the value cannot be encoded as utf-8
RECURSIVE HasSurrogate(_)
HasSurrogate(x) ==
    IF x.t = "str" THEN \E i \in 1..Len(x.v) : x.v[i] \in Surrogates
    ELSE IF x.t = "list" THEN \E i \in 1..Len(x.v) : HasSurrogate(x.v[i])
    ELSE FALSE

\* writing json.dumps(data, ensure_ascii=False) to a file opened with
\* encoding='utf-8' raises UnicodeEncodeError: the text is that of the whole
\* record, its pk and every field value (field names and model labels are
\* taken to be encodable)
EncodeFails(data) ==
    \E i \in 1..Len(data) :
        \/ "pk" \in DOMAIN data[i] /\ HasSurrogate(data[i].pk)
        \/ \E k \in DOMAIN FieldsOf(data[i]) : HasSurrogate(FieldsOf(data[i])[k])

(***************************************************************************)
(* validate_fixtures.py                                                    *)
(***************************************************************************)
BoolFields == {"is_superuser", "is_staff", "is_active"}

\* [+-]\d\d:\d\d ending at character e of s
ReOffsetAt(s, e) ==
    /\ e >= 6 /\ e <= Len(s)
    /\ s[e - 5] \in {"+", "-"} /\ s[e - 2] = ":"
    /\ \A i \in {e - 4, e - 3, e - 1, e} : s[i] \in Digits

\* lines 17-18; re.search(r'[+-]\d\d:\d\d$', s) ends at the end of s or before
\* a final newline.  No line of the script calls it.
is_tz_aware(s) ==
    /\ Contains(s, "T")
    /\ \/ (Len(s) > 0 /\ s[Len(s)] = "Z")
       \/ ReOffsetAt(s, Len(s))
       \/ (Len(s) > 0 /\ s[Len(s)] = "\n" /\ ReOffsetAt(s, Len(s) - 1))

\* lines 42-52: isinstance(v, str) and v, and one of the two patterns matches
VfIsNaive(v) == IsStr(v) /\ v.v # <<>> /\ ReNaive(v.v)
VfIsNoZone(v) == IsStr(v) /\ v.v # <<>> /\ ~ReNaive(v.v) /\ ReNoZone(v.v)

\* lines 54-55
VfIsBool(k, v) == k \in BoolFields /\ IsStr(v) /\ v.v \in {<<"1">>, <<"0">>}

\* VfValue with the Z suffix of line 45 forgotten
VfValueNoSuffix(k, v) ==
    IF VfIsBool(k, v) THEN JBool(v.v = <<"1">>)
    ELSE IF VfIsNaive(v) THEN JStr(ReplaceSpaceT(v.v))
    ELSE IF VfIsNoZone(v) THEN JStr(v.v \o <<"Z">>)
    ELSE v

\* the value fields[k] holds after the loop body ran for (k, v); the boolean
\* branch tests the old v and assigns last
VfValue(k, v) ==
    IF VfIsBool(k, v) THEN JBool(v.v = <<"1">>)
    ELSE IF VfIsNaive(v) THEN JStr(ReplaceSpaceT(v.v) \o <<"Z">>)
    ELSE IF VfIsNoZone(v) THEN JStr(v.v \o <<"Z">>)
    ELSE v

\* modified = True is reached for (k, v)
VfFixes(k, v) == VfIsNaive(v) \/ VfIsNoZone(v) \/ VfIsBool(k, v)

\* lines 31-34: not model_label
VfSkips(obj) == obj.model = <<>>

\* line 35: app_label, model_name = model_label.split('.') raises ValueError
VfRaises(obj) == ~VfSkips(obj) /\ Len(obj.model) # 2

\* the error handler of sys.stdout, whose encoding is utf-8: strict in a UTF-8
\* locale, surrogateescape in the C locale.  The script does not set it, so
\* an invocation runs under either.
StdoutErrors == {"strict", "surrogateescape"}

\* U+DC80 to U+DCFF, the surrogates the surrogateescape handler writes as a byte
EscapedSurrogates ==
    {"uDC" \o b \o c : b \in {"8", "9", "A", "B", "C", "D", "E", "F"}, c \in Hex}

\* lines 48, 52, 58: print(f"... pk={obj.get('pk')} ...") raises
\* UnicodeEncodeError.  A pk that is a string is printed as it is; any other
\* pk is printed as its repr, which escapes a surrogate.
PrintFails(pk, h) ==
    /\ pk.t = "str"
    /\ \E i \in 1..Len(pk.v) :
        /\ pk.v[i] \in Surrogates
        /\ h = "strict" \/ pk.v[i] \notin EscapedSurrogates

\* the first fix of the record is assigned and its message cannot be printed
VfPrintRaises(obj, h) ==
    /\ ~VfSkips(obj) /\ Len(obj.model) = 2
    /\ "pk" \in DOMAIN obj /\ PrintFails(obj.pk, h)
    /\ \E k \in DOMAIN FieldsOf(obj) : VfFixes(k, FieldsOf(obj)[k])

\* the loop body raises for the object, at line 35 or at a fix message
VfStops(obj, h) == VfRaises(obj) \/ VfPrintRaises(obj, h)

\* the first object at which the loop raises, 0 if none
VfRaiseAt(data, h) ==
    IF \E i \in 1..Len(data) : VfStops(data[i], h)
    THEN CHOOSE i \in 1..Len(data) :
            VfStops(data[i], h) /\ \A j \in 1..(i - 1) : ~VfStops(data[j], h)
    ELSE 0

\* the objects the loop body runs for to its end
VfReached(data, h) ==
    {i \in 1..Len(data) :
        ~VfSkips(data[i]) /\ (VfRaiseAt(data, h) = 0 \/ i < VfRaiseAt(data, h))}

\* data after the loop, lines 30-58
VfData(data, h) ==
    [i \in 1..Len(data) |->
        IF i \in VfReached(data, h) /\ HasFields(data[i])
        THEN [data[i] EXCEPT !.fields =
                [k \in DOMAIN data[i].fields |-> VfValue(k, data[i].fields[k])]]
        ELSE data[i]]

\* the (object, field) pairs a fix was printed for
VfFixed(data, h) ==
    {ik \in UNION {{<<i, k>> : k \in DOMAIN FieldsOf(data[i])} :
                        i \in VfReached(data, h)} :
        VfFixes(ik[2], data[ik[1]].fields[ik[2]])}

Report(op, result, fixedSet, wrote) ==
    [op |-> op, result |-> result, fixed |-> fixedSet, wrote |-> wrote]

\* lines 70-73: validate_file is called for every *.json of scripts/fixtures,
\* the record file and games_game_fixed.json (a .bak is no *.json)
Targets == {"file", "fixed"}
FileOf(t) == IF t = "file" THEN file ELSE fixed

\* validate_file with the test of line 59, if modified, forgotten
validate_file_unguarded ==
    /\ pc = "idle"
    /\ \E t \in Targets, h \in StdoutErrors :
        /\ FileOf(t).kind # "none"
        /\ target' = t
        /\ preInv' = FileOf(t)
        /\ IF ParseFails(FileOf(t))
           THEN /\ last' = Report("validate", "parse_error", {}, FALSE)
                /\ UNCHANGED <<pc, pending>>
           ELSE IF VfRaiseAt(FileOf(t).data, h) # 0
           THEN /\ last' = Report("validate", "raised", VfFixed(FileOf(t).data, h), FALSE)
                /\ UNCHANGED <<pc, pending>>
           ELSE /\ last' = Report("validate", "running", VfFixed(FileOf(t).data, h), FALSE)
                /\ pending' = VfData(FileOf(t).data, h)
                /\ pc' = "bak_open"
    /\ prev' = last
    /\ UNCHANGED <<path, file, bak, fixed, fixedBak, changePre>>
    /\ UNCHANGED extractVars

\* validate_file, lines 21-59: read, parse, scan; nothing is written yet.  An
\* exception of the loop, the ValueError of line 35 or the UnicodeEncodeError
\* of a fix message, leaves validate_file before line 59.
validate_file ==
    /\ pc = "idle"
    /\ \E t \in Targets, h \in StdoutErrors :
        /\ FileOf(t).kind # "none"
        /\ target' = t
        /\ preInv' = FileOf(t)
        /\ IF ParseFails(FileOf(t))
           THEN /\ last' = Report("validate", "parse_error", {}, FALSE)
                /\ UNCHANGED <<pc, pending>>
           ELSE IF VfRaiseAt(FileOf(t).data, h) # 0
           THEN /\ last' = Report("validate", "raised", VfFixed(FileOf(t).data, h), FALSE)
                /\ UNCHANGED <<pc, pending>>
           ELSE IF VfFixed(FileOf(t).data, h) = {}
           THEN /\ last' = Report("validate", "ok", {}, FALSE)
                /\ UNCHANGED <<pc, pending>>
           ELSE /\ last' = Report("validate", "running", VfFixed(FileOf(t).data, h), FALSE)
                /\ pending' = VfData(FileOf(t).data, h)
                /\ pc' = "bak_open"
    /\ prev' = last
    /\ UNCHANGED <<path, file, bak, fixed, fixedBak, changePre>>
    /\ UNCHANGED extractVars

\* line 60, Path(str(path) + '.bak').write_text(..): open(.., 'w') truncates
validate_bak_open ==
    /\ pc = "bak_open"
    /\ IF target = "file"
       THEN bak' = Torn /\ UNCHANGED fixedBak
       ELSE fixedBak' = Torn /\ UNCHANGED bak
    /\ pc' = "bak_write"
    /\ UNCHANGED <<path, file, fixed, target, pending, preInv, changePre, last, prev>>
    /\ UNCHANGED extractVars

\* line 60: the text path.read_text() returns is written and the file closed
validate_bak_write ==
    /\ pc = "bak_write"
    /\ IF target = "file"
       THEN bak' = ReadText(file) /\ UNCHANGED fixedBak
       ELSE fixedBak' = ReadText(fixed) /\ UNCHANGED bak
    /\ pc' = "file_open"
    /\ UNCHANGED <<path, file, fixed, target, pending, preInv, changePre, last, prev>>
    /\ UNCHANGED extractVars

\* line 61, path.write_text(..): open(path, 'w') truncates the original
validate_file_open ==
    /\ pc = "file_open"
    /\ IF target = "file"
       THEN file' = Torn /\ changePre' = preInv /\ UNCHANGED fixed
       ELSE fixed' = Torn /\ UNCHANGED <<file, changePre>>
    /\ pc' = "file_write"
    /\ UNCHANGED <<path, bak, fixedBak, target, pending, preInv, last, prev>>
    /\ UNCHANGED extractVars

\* lines 61-63: json.dumps(data, indent=2, ensure_ascii=False) is written; when
\* its encoding raises UnicodeEncodeError the file stays empty and the
\* exception leaves validate_file
validate_file_write ==
    /\ pc = "file_write"
    /\ IF EncodeFails(pending)
       THEN /\ last' = [last EXCEPT !.result = "raised"]
            /\ UNCHANGED <<file, fixed>>
       ELSE /\ last' = [last EXCEPT !.result = "ok", !.wrote = TRUE]
            /\ IF target = "file"
               THEN file' = Dumps(pending) /\ UNCHANGED fixed
               ELSE fixed' = Dumps(pending) /\ UNCHANGED file
    /\ pc' = "idle"
    /\ UNCHANGED <<path, bak, fixedBak, target, pending, preInv, changePre, prev>>
    /\ UNCHANGED extractVars

\* the process is killed between two steps of validate_file
Kill ==
    /\ pc # "idle"
    /\ pc' = "idle"
    /\ last' = [last EXCEPT !.result = "killed"]
    /\ UNCHANGED <<path, file, bak, fixed, fixedBak, target, pending, preInv,
                   changePre, prev>>
    /\ UNCHANGED extractVars

(***************************************************************************)
(* Python's int(s) and str.isdigit().                                      *)
(***************************************************************************)
\* the characters int() skips at both ends of its argument: the white space
\* of str.isspace() but for the separators U+001C to U+001F (the form feed is
\* written "\f" or "u000C")
Space ==
    {"\t", "\n", "u000B", "\f", "\r", " ", "u0085", "u00A0", "u1680", "u2000",
     "u2001", "u2002", "u2003", "u2004", "u2005", "u2006", "u2007", "u2008",
     "u2009", "u200A", "u2028", "u2029", "u202F", "u205F", "u3000", "u000C"}

RECURSIVE LStrip(_)
LStrip(s) == IF s # <<>> /\ Head(s) \in Space THEN LStrip(Tail(s)) ELSE s

RECURSIVE RStrip(_)
RStrip(s) ==
    IF s # <<>> /\ s[Len(s)] \in Space THEN RStrip(SubSeq(s, 1, Len(s) - 1)) ELSE s

Strip(s) == RStrip(LStrip(s))

\* the digits after the sign: digits, single underscores between them
IntBody(s) ==
    /\ s # <<>>
    /\ \A i \in 1..Len(s) : s[i] \in Digits \cup {"_"}
    /\ s[1] \in Digits /\ s[Len(s)] \in Digits
    /\ \A i \in 1..(Len(s) - 1) : ~(s[i] = "_" /\ s[i + 1] = "_")

Unsigned(s) == IF s # <<>> /\ Head(s) \in {"+", "-"} THEN Tail(s) ELSE s

\* the most digits int() converts from a string (sys.int_info
\* .default_max_str_digits; the scripts do not change it)
MaxStrDigits == 4300

\* the digits of the literal, leading zeros counted, underscores not
DigitCount(s) == Cardinality({i \in 1..Len(s) : s[i] \in Digits})

\* int(s) returns (it raises ValueError otherwise)
PyIntOk(s) ==
    /\ IntBody(Unsigned(Strip(s)))
    /\ DigitCount(s) <= MaxStrDigits

\* the value of a decimal digit
DigitVal(c) == (CHOOSE n \in 1..10 : \E b \in DigitBlocks : b[n] = c) - 1

RECURSIVE Magnitude(_)
Magnitude(s) ==
    IF s = <<>> THEN 0
    ELSE IF s[Len(s)] = "_" THEN Magnitude(SubSeq(s, 1, Len(s) - 1))
    ELSE 10 * Magnitude(SubSeq(s, 1, Len(s) - 1)) + DigitVal(s[Len(s)])

\* the value of int(s), where PyIntOk(s)
PyInt(s) ==
    LET t == Strip(s)
    IN  IF Head(t) = "-" THEN 0 - Magnitude(Tail(t)) ELSE Magnitude(Unsigned(t))

\* the characters str.isdigit() accepts and int() does not: superscripts,
\* circled digits and the like (Numeric_Type Digit, not Decimal)
OtherDigits ==
    {"u00B2", "u00B3", "u00B9", "u1369", "u136A", "u136B", "u136C", "u136D",
     "u136E", "u136F", "u1370", "u1371", "u19DA", "u2070", "u2074", "u2075",
     "u2076", "u2077", "u2078", "u2079", "u2080", "u2081", "u2082", "u2083",
     "u2084", "u2085", "u2086", "u2087", "u2088", "u2089", "u2460", "u2461",
     "u2462", "u2463", "u2464", "u2465", "u2466", "u2467", "u2468", "u2474",
     "u2475", "u2476", "u2477", "u2478", "u2479", "u247A", "u247B", "u247C",
     "u2488", "u2489", "u248A", "u248B", "u248C", "u248D", "u248E", "u248F",
     "u2490", "u24EA", "u24F5", "u24F6", "u24F7", "u24F8", "u24F9", "u24FA",
     "u24FB", "u24FC", "u24FD", "u24FF", "u2776", "u2777", "u2778", "u2779",
     "u277A", "u277B", "u277C", "u277D", "u277E", "u2780", "u2781", "u2782",
     "u2783", "u2784", "u2785", "u2786", "u2787", "u2788", "u278A", "u278B",
     "u278C", "u278D", "u278E", "u278F", "u2790", "u2791", "u2792", "u10A40",
     "u10A41", "u10A42", "u10A43", "u10E60", "u10E61", "u10E62", "u10E63",
     "u10E64", "u10E65", "u10E66", "u10E67", "u10E68", "u11052", "u11053",
     "u11054", "u11055", "u11056", "u11057", "u11058", "u11059", "u1105A",
     "u1F100", "u1F101", "u1F102", "u1F103", "u1F104", "u1F105", "u1F106",
     "u1F107", "u1F108", "u1F109", "u1F10A"}

\* s.isdigit()
PyIsDigit(s) == s # <<>> /\ \A i \in 1..Len(s) : s[i] \in Digits \cup OtherDigits

\* bool(v)
Truthy(v) ==
    IF v.t = "bool" THEN v.v
    ELSE IF v.t = "int" THEN v.v # 0
    ELSE IF v.t = "null" THEN FALSE
    ELSE v.v # <<>>

Range(q) == {q[i] : i \in 1..Len(q)}

\* n == y for an int n and a JSON value y: True equals 1 and False equals 0
PyEqInt(n, y) ==
    \/ y.t = "int" /\ y.v = n
    \/ y.t = "bool" /\ n = (IF y.v THEN 1 ELSE 0)

\* n in l, for an int n and the elements l of a list
PyIn(n, l) == \E i \in 1..Len(l) : PyEqInt(n, l[i])

(***************************************************************************)
(* normalize_auth_users.py                                                 *)
(***************************************************************************)
AuthUser == <<"authman", "user">>
TeamManager == <<"t", "e", "a", "m", "_", "m", "a", "n", "a", "g", "e", "r">>
DtFields == {"last_login", "date_joined"}

\* lines 18-20: any string becomes a boolean
NauBool(v) ==
    IF IsStr(v)
    THEN JBool(v.v \in {<<"1">>, <<"t", "r", "u", "e">>, <<"T", "r", "u", "e">>})
    ELSE v

\* lines 26 and 29: '+' not in s and 'Z' not in s and '-' not in s[11:]
NauNoZone(s) ==
    ~Contains(s, "+") /\ ~Contains(s, "Z") /\ ~Contains(From(s, 11), "-")

\* lines 22-31
NauDt(v) ==
    IF IsStr(v) /\ v.v # <<>> /\ (~Contains(v.v, "T") \/ NauNoZone(v.v))
    THEN IF NauNoZone(ReplaceSpaceT(v.v))
         THEN JStr(ReplaceSpaceT(v.v) \o <<"Z">>)
         ELSE JStr(ReplaceSpaceT(v.v))
    ELSE v

\* lines 17-31: the fields after the booleans and the timestamps
NauScalars(fields) ==
    [k \in DOMAIN fields |->
        IF k \in BoolFields THEN NauBool(fields[k])
        ELSE IF k \in DtFields THEN NauDt(fields[k])
        ELSE fields[k]]

\* line 33: fields.get('groups') or []
NauGroups0(fields) ==
    IF "groups" \in DOMAIN fields /\ Truthy(fields["groups"])
    THEN fields["groups"] ELSE JList(<<>>)

\* line 34: fields.get('is_superuser')
NauSuper(fields) == "is_superuser" \in DOMAIN fields /\ Truthy(fields["is_superuser"])

\* lines 37-38: role == 'team_manager'
NauManager(fields) ==
    "role" \in DOMAIN fields /\ IsStr(fields["role"]) /\ fields["role"].v = TeamManager

\* lines 33-39: groups after the two membership rules; a value that is no list
\* is left as it is when neither rule tests it
NauGroups(fields) ==
    LET g0 == NauGroups0(fields)
        g1 == IF NauSuper(fields) /\ ~PyIn(1, g0.v)
              THEN Append(g0.v, JInt(1)) ELSE g0.v
    IN  IF g0.t # "list" THEN g0
        ELSE JList(IF NauManager(fields) /\ ~PyIn(2, g1)
                   THEN Append(g1, JInt(2)) ELSE g1)

\* lines 35 and 38: 1 not in groups, 2 not in groups raise TypeError for a
\* groups that is a string, a number or a boolean
NauGroupsRaise(fields) ==
    /\ NauGroups0(fields).t # "list"
    /\ NauSuper(fields) \/ NauManager(fields)

\* lines 16-41 for one object with model authman.user
NauFields(fields) ==
    LET f1 == NauScalars(fields)
        g == NauGroups(f1)
    IN  IF Truthy(g)
        THEN [k \in DOMAIN f1 \cup {"groups"} |-> IF k = "groups" THEN g ELSE f1[k]]
        ELSE f1

\* the loop body raises for the object: KeyError at line 16 for an object
\* without "fields", TypeError at line 35 or 38
NauRaises(obj) ==
    /\ obj.model = AuthUser
    /\ ~HasFields(obj) \/ NauGroupsRaise(NauScalars(obj.fields))

\* lines 13-41
NauData(data) ==
    [i \in 1..Len(data) |->
        IF data[i].model = AuthUser
        THEN [data[i] EXCEPT !.fields = NauFields(data[i].fields)]
        ELSE data[i]]

ChangedPairs(old, new) ==
    {ik \in UNION {{<<i, k>> : k \in DOMAIN FieldsOf(new[i])} : i \in 1..Len(new)} :
        \/ ik[2] \notin DOMAIN old[ik[1]].fields
        \/ old[ik[1]].fields[ik[2]] # new[ik[1]].fields[ik[2]]}

\* the whole script: IN is scripts/fixtures/authman_user.json, BAK its .bak.
\* Line 8 raises on a file that does not parse; line 11 truncates BAK and
\* raises when the dump cannot be encoded; the loop raises after BAK is
\* written; IN is written at lines 43-44 when nothing raised.
normalize_auth_users ==
    /\ pc = "idle"
    /\ path = "authman_user"
    /\ preInv' = file
    /\ prev' = last
    /\ IF ParseFails(file)
       THEN /\ last' = Report("auth", "raised", {}, FALSE)
            /\ UNCHANGED <<file, bak, changePre>>
       ELSE IF EncodeFails(file.data)
       THEN /\ bak' = Torn
            /\ last' = Report("auth", "raised", {}, FALSE)
            /\ UNCHANGED <<file, changePre>>
       ELSE IF \E i \in 1..Len(file.data) : NauRaises(file.data[i])
       THEN /\ bak' = Dumps(file.data)
            /\ last' = Report("auth", "raised", {}, FALSE)
            /\ UNCHANGED <<file, changePre>>
       ELSE /\ bak' = Dumps(file.data)
            /\ file' = Dumps(NauData(file.data))
            /\ changePre' = IF file' # file THEN file ELSE changePre
            /\ last' = Report("auth", "ok", ChangedPairs(file.data, NauData(file.data)), TRUE)
    /\ UNCHANGED <<path, fixed, fixedBak, target, pc, pending>>
    /\ UNCHANGED extractVars

(***************************************************************************)
(* convert_games_fixture.py                                                *)
(***************************************************************************)
GamesGame == <<"games", "game">>
Completed == <<"c", "o", "m", "p", "l", "e", "t", "e", "d">>

\* if old in fields: fields[new] = fields.pop(old)
Rename(fields, old, new) ==
    IF old \in DOMAIN fields
    THEN [k \in (DOMAIN fields \ {old}) \cup {new} |->
            IF k = new THEN fields[old] ELSE fields[k]]
    ELSE fields

\* lines 17-28
CgRenamed(fields) ==
    Rename(Rename(Rename(Rename(Rename(Rename(fields,
        "start_time", "date"), "team1", "home_team"), "team2", "away_team"),
        "team1_score", "home_team_score"), "team2_score", "away_team_score"),
        "pool", "division_pool")

\* lines 30-34: int(str(fields['game_round'])), left alone when that raises
CgRound(v) ==
    IF v.t = "int" THEN v
    ELSE IF IsStr(v) /\ PyIntOk(v.v) THEN JInt(PyInt(v.v))
    ELSE v

\* line 38, 'T' in fields['date']: a substring of a string, an element of a list
CgHasT(v) ==
    IF IsStr(v) THEN Contains(v.v, "T")
    ELSE \E i \in 1..Len(v.v) : IsStr(v.v[i]) /\ v.v[i].v = <<"T">>

\* lines 36-39
CgDate(v) == IF CgHasT(v) THEN v ELSE JStr(ReplaceSpaceT(v.v))

\* the loop body raises for the object: KeyError at line 15 for an object
\* without "fields"; TypeError at line 38 for a date that is a number, a
\* boolean or null; AttributeError at line 39 for a list without 'T'
CgRaises(obj) ==
    /\ obj.model = GamesGame
    /\ \/ ~HasFields(obj)
       \/ /\ "date" \in DOMAIN CgRenamed(obj.fields)
          /\ LET d == CgRenamed(obj.fields)["date"]
             IN  IF d.t \in {"str", "list"} THEN d.t = "list" /\ ~CgHasT(d) ELSE TRUE

\* lines 15-46
CgFields(fields) ==
    LET f1 == CgRenamed(fields)
        f2 == [k \in DOMAIN f1 |->
                 IF k = "game_round" THEN CgRound(f1[k])
                 ELSE IF k = "date" THEN CgDate(f1[k])
                 ELSE f1[k]]
    IN  [k \in DOMAIN f2 \cup {"location", "status"} |->
            IF k \in DOMAIN f2 THEN f2[k]
            ELSE IF k = "location" THEN JInt(1)
            ELSE JStr(Completed)]

\* lines 10-47
CgData(data) ==
    [i \in 1..Len(data) |->
        IF data[i].model = GamesGame
        THEN [data[i] EXCEPT !.fields = CgFields(data[i].fields)]
        ELSE data[i]]

\* the whole script: in_path is games_game.json, out_path games_game_fixed.json.
\* Line 49 truncates out_path, and json.dump writes a part of the text before
\* it raises at a string that cannot be encoded.
convert_games_fixture ==
    /\ pc = "idle"
    /\ path = "games_game"
    /\ preInv' = file
    /\ prev' = last
    /\ IF ParseFails(file) \/ \E i \in 1..Len(file.data) : CgRaises(file.data[i])
       THEN /\ last' = Report("convert", "raised", {}, FALSE)
            /\ UNCHANGED fixed
       ELSE IF EncodeFails(CgData(file.data))
       THEN /\ fixed' = Torn
            /\ last' = Report("convert", "raised", {}, FALSE)
       ELSE /\ fixed' = Dumps(CgData(file.data))
            /\ last' = Report("convert", "ok", {}, TRUE)
    /\ UNCHANGED <<path, file, bak, fixedBak, target, pc, pending, changePre>>
    /\ UNCHANGED extractVars

(***************************************************************************)
(* The record files the repair passes are run on.                          *)
(***************************************************************************)
TDate == <<"2", "0", "2", "6", "-", "0", "7", "-", "0", "1">>
TTime == <<"1", "0", ":", "0", "0", ":", "0", "0">>
Naive == TDate \o <<" ">> \o TTime
NoZone == TDate \o <<"T">> \o TTime
Canon == NoZone \o <<"Z">>
\* a timestamp with time zone as a PostgreSQL dump prints it
NaiveOff == Naive \o <<"+", "0", "0">>

\* the field k absent, or holding one of the values
Opt(k, values) == {<<>>} \cup {k :> x : x \in values}

Obj(label, fields) == [model |-> label, pk |-> JInt(1), fields |-> fields]

BoolPool ==
    {JStr(<<"1">>), JStr(<<"0">>), JStr(<<"t", "r", "u", "e">>),
     JStr(<<"T", "r", "u", "e">>), JStr(<<"y", "e", "s">>), JBool(TRUE), JBool(FALSE)}
DtPool == {JStr(Naive), JStr(NoZone), JStr(Canon), JStr(NaiveOff)}
RolePool == {JStr(TeamManager), JStr(<<"1">>)}
GroupsPool ==
    {JList(<<>>), JList(<<JInt(1)>>), JList(<<JInt(3)>>), JList(<<JInt(1), JInt(1)>>)}

\* labels that are not app.model of a known model: an unknown model, a label
\* without a dot, no label
OddLabels == {<<"legacy", "person">>, <<"authman_user">>, <<>>}

AuthObjs ==
    {Obj(AuthUser, a @@ b @@ c @@ d) :
        a \in Opt("is_superuser", BoolPool), b \in Opt("last_login", DtPool),
        c \in Opt("role", RolePool), d \in Opt("groups", GroupsPool)}
    \cup {Obj(l, a @@ b) :
            l \in OddLabels, a \in Opt("is_superuser", {JStr(<<"1">>)}),
            b \in Opt("last_login", {JStr(Naive)})}

\* a timestamp in Arabic-Indic digits
NaiveArabic ==
    <<"u0662", "u0660", "u0662", "u0666", "-", "u0660", "u0667", "-", "u0660", "u0661",
      " ", "u0661", "u0660", ":", "u0660", "u0660", ":", "u0660", "u0660">>

\* a string json.loads reads from "\ud800"
LoneSurrogate == JStr(<<"uD800">>)

\* user records at the edges of what a fixture file can hold: a string that
\* cannot be encoded (in a field or as the pk), no "fields", a groups that is
\* no list of ids
AuthEdges ==
    {Obj(AuthUser, ("is_superuser" :> JStr(<<"1">>)) @@ ("first_name" :> LoneSurrogate)),
     Obj(AuthUser, ("first_name" :> LoneSurrogate)),
     [model |-> AuthUser, pk |-> JInt(1)],
     Obj(AuthUser, ("groups" :> JStr(<<"a", "b">>))),
     Obj(AuthUser, ("groups" :> JStr(<<"a", "b">>)) @@ ("is_superuser" :> JBool(TRUE))),
     Obj(AuthUser, ("groups" :> JList(<<JBool(TRUE)>>)) @@ ("is_superuser" :> JBool(TRUE))),
     Obj(AuthUser, ("last_login" :> JStr(NaiveArabic))),
     [model |-> AuthUser, pk |-> LoneSurrogate,
      fields |-> ("is_superuser" :> JStr(<<"1">>))],
     [model |-> AuthUser, pk |-> JStr(<<"uDC80">>),
      fields |-> ("is_superuser" :> JStr(<<"1">>))]}

AuthFillers ==
    {Obj(AuthUser, ("is_superuser" :> JStr(<<"1">>))),
     Obj(<<"authman_user">>, ("last_login" :> JStr(Naive)))}

GameObjs ==
    {Obj(GamesGame, a @@ b @@ d) :
        a \in Opt("start_time", {JStr(Naive), JStr(Canon), JStr(NaiveOff)}),
        b \in Opt("date", {JStr(Naive), JInt(20260701)}),
        d \in Opt("game_round", {JInt(3), JStr(<<"3">>), JStr(<<"f">>)})}
    \cup {Obj(GamesGame, a @@ c @@ e) :
            a \in Opt("start_time", {JStr(Naive)}),
            c \in Opt("team1", {JInt(4)}),
            e \in Opt("location", {JInt(2)})}
    \cup {Obj(l, a) : l \in OddLabels, a \in Opt("start_time", {JStr(Naive)})}

\* game records at the same edges
GameEdges ==
    {Obj(GamesGame, ("start_time" :> JStr(Naive)) @@ ("name" :> LoneSurrogate)),
     [model |-> GamesGame, pk |-> JInt(1)],
     Obj(GamesGame, ("date" :> JList(<<JStr(<<"T">>)>>))),
     Obj(GamesGame, ("date" :> JList(<<JStr(<<"x">>)>>))),
     Obj(GamesGame, ("game_round" :> JStr(<<"u0663", "\r">>))),
     [model |-> GamesGame, pk |-> LoneSurrogate,
      fields |-> ("start_time" :> JStr(Naive))]}

GameFillers ==
    {Obj(GamesGame, ("start_time" :> JStr(Naive)) @@ ("pool" :> JInt(1))
                    @@ ("status" :> JStr(Completed))),
     Obj(<<"games", "team">>, ("name" :> JStr(<<"a">>)))}

\* the lists of at most max elements, one of them any element of wide and the
\* others fillers
ListsOf(wide, fillers, max) ==
    {<<>>} \cup
    UNION {{[i \in 1..n |-> IF i = p THEN w ELSE r[i]] :
                w \in wide \cup fillers, p \in 1..n, r \in [1..n -> fillers]} :
           n \in 1..max}

FilesOf(wide, fillers) == ListsOf(wide, fillers, MaxRecords)

Layouts == {"indent2", "other", "crlf"}

NoReport == Report("none", "none", {}, FALSE)

ExtractOff ==
    /\ stream = <<>> /\ pos = 0 /\ gpc = "off"
    /\ table = "" /\ cols = <<>> /\ rows = <<>> /\ fixtures = <<>>
    /\ blockBase = 0 /\ eofInBlock = FALSE /\ out = {}

Init ==
    /\ path \in {"authman_user", "games_game"}
    /\ file \in {Json(l, d) : l \in Layouts,
                    d \in IF path = "authman_user"
                          THEN FilesOf(AuthObjs \cup AuthEdges, AuthFillers)
                          ELSE FilesOf(GameObjs \cup GameEdges, GameFillers)}
    \* json.dumps(.., ensure_ascii=False) has no text for a lone surrogate
    /\ file.layout = "indent2" => ~EncodeFails(file.data)
    /\ bak = NoFile /\ fixed = NoFile /\ fixedBak = NoFile /\ target = "file"
    /\ pc = "idle" /\ pending = <<>>
    /\ preInv = NoFile /\ changePre = NoFile
    /\ last = NoReport /\ prev = NoReport
    /\ ExtractOff

Next ==
    \/ validate_file
    \/ validate_bak_open
    \/ validate_bak_write
    \/ validate_file_open
    \/ validate_file_write
    \/ Kill
    \/ normalize_auth_users
    \/ convert_games_fixture

Spec == Init /\ [][Next]_vars

(***************************************************************************)
(* generate_fixtures.py                                                    *)
(***************************************************************************)
TABLE_TO_FIXTURE ==
    ("_core_location" :> [label |-> <<"core", "location">>, colmap |->
        [id |-> "pk", name |-> "name", address |-> "address", city |-> "city",
         country |-> "country"]])
    @@ ("_core_divisionpool" :> [label |-> <<"games", "divisionpool">>, colmap |->
        [id |-> "pk", name |-> "name", description |-> "description"]])
    @@ ("_core_field" :> [label |-> <<"games", "field">>, colmap |->
        [id |-> "pk", name |-> "name", capacity |-> "capacity",
         surface_type |-> "surface_type", location_id |-> "location"]])
    @@ ("_core_gameround" :> [label |-> <<"games", "gameround">>, colmap |->
        [id |-> "pk", name |-> "name", start_date |-> "start_date",
         end_date |-> "end_date"]])
    @@ ("_core_team" :> [label |-> <<"games", "team">>, colmap |->
        [id |-> "pk", name |-> "name", initial_seed |-> "initial_seed",
         origin_id |-> "origin"]])
    @@ ("_core_player" :> [label |-> <<"games", "player">>, colmap |->
        [id |-> "pk", name |-> "name",
         spirit_award_nominations |-> "spirit_award_nominations",
         mvp_nominations |-> "mvp_nominations", team_id |-> "team",
         gender |-> "gender"]])
    @@ ("_core_game" :> [label |-> <<"games", "game">>, colmap |->
        [id |-> "pk", date |-> "start_time", home_team_score |-> "team1_score",
         away_team_score |-> "team2_score", division_pool_id |-> "pool",
         field_id |-> "field", away_team_id |-> "team2", home_team_id |-> "team1",
         name |-> "name", game_round_id |-> "game_round"]])
    @@ ("_core_scoring" :> [label |-> <<"games", "scoring">>, colmap |->
        [id |-> "pk", goals |-> "goals", assists |-> "assists", game_id |-> "game",
         player_id |-> "player"]])
    @@ ("_core_spiritscore" :> [label |-> <<"games", "spiritscore">>, colmap |->
        [id |-> "pk", rules_knowledge |-> "rules_knowledge",
         fouls_body_contact |-> "fouls_body_contact",
         fair_mindedness |-> "fair_mindedness", attitude |-> "attitude",
         communication |-> "communication", game_id |-> "game",
         scored_by_id |-> "scored_by", team_id |-> "team",
         mvp_female_nomination_id |-> "mvp_female_nomination",
         mvp_male_nomination_id |-> "mvp_male_nomination",
         spirit_female_nomination_id |-> "spirit_female_nomination",
         spirit_male_nomination_id |-> "spirit_male_nomination"]])
    @@ ("_authman_user" :> [label |-> <<"authman", "user">>, colmap |->
        [id |-> "pk", password |-> "password", last_login |-> "last_login",
         is_superuser |-> "is_superuser", username |-> "username",
         first_name |-> "first_name", last_name |-> "last_name", email |-> "email",
         is_staff |-> "is_staff", is_active |-> "is_active",
         date_joined |-> "date_joined", role |-> "role", team_id |-> "team"]])

\* line 58, the fields converted with int() under try/except ValueError
NumericFields ==
    {"capacity", "initial_seed", "team1_score", "team2_score", "goals", "assists"}

\* line 63, the relation fields
RelationFields ==
    {"team", "game", "player", "pool", "field", "team1", "team2", "scored_by",
     "mvp_female_nomination", "mvp_male_nomination", "spirit_female_nomination",
     "spirit_male_nomination"}

\* name.endswith('_id'), over the column names of the program
EndsWithId(name) ==
    name \in {"location_id", "origin_id", "team_id", "division_pool_id", "field_id",
              "away_team_id", "home_team_id", "game_round_id", "game_id",
              "player_id", "scored_by_id", "mvp_female_nomination_id",
              "mvp_male_nomination_id", "spirit_female_nomination_id",
              "spirit_male_nomination_id"}

JNull == [t |-> "null", v |-> 0]

\* line 48, data = dict(zip(cols, values)): c in data, and data[c]
Zipped(cs, vals) == {i \in 1..Len(cs) : i <= Len(vals)}
Has(cs, vals, c) == \E i \in Zipped(cs, vals) : cs[i] = c
Get(cs, vals, c) ==
    vals[CHOOSE i \in Zipped(cs, vals) :
            cs[i] = c /\ \A j \in Zipped(cs, vals) : cs[j] = c => j <= i]

\* line 49: data.get('id') is a non-empty string
HasPk(cs, vals) == Has(cs, vals, "id") /\ Get(cs, vals, "id") # <<>>
PkRaises(cs, vals) == HasPk(cs, vals) /\ ~PyIntOk(Get(cs, vals, "id"))
Pk(cs, vals) == IF HasPk(cs, vals) THEN JInt(PyInt(Get(cs, vals, "id"))) ELSE JNull

\* Present with the test val == '' of line 55 forgotten
PresentKeepsEmpty(cs, vals, c) == Has(cs, vals, c)

\* lines 54-56: the column yields a field
Present(cs, vals, c) == Has(cs, vals, c) /\ Get(cs, vals, c) # <<>>

\* lines 58-62: val after the numeric conversion
Numeric(model_col, val) ==
    IF model_col \in NumericFields /\ PyIntOk(val) THEN JInt(PyInt(val)) ELSE JStr(val)

\* line 63: the condition under which int(val) is applied
IsRelation(model_col) == EndsWithId(model_col) \/ model_col \in RelationFields
IntApplied(model_col, val) ==
    /\ IsRelation(model_col)
    /\ IF IsStr(Numeric(model_col, val)) THEN PyIsDigit(val) ELSE PyInt(val) >= 0

CoerceRaises(model_col, val) == IntApplied(model_col, val) /\ ~PyIntOk(val)
Coerce(model_col, val) ==
    IF IntApplied(model_col, val) THEN JInt(PyInt(val)) ELSE Numeric(model_col, val)

\* the legacy columns of colmap that yield a field of the row
FieldCols(colmap, cs, vals) ==
    {c \in DOMAIN colmap \ {"id"} : Present(cs, vals, c)}

\* lines 47-65 raise ValueError for the row
MapRaises(colmap, cs, vals) ==
    \/ PkRaises(cs, vals)
    \/ \E c \in FieldCols(colmap, cs, vals) : CoerceRaises(colmap[c], Get(cs, vals, c))

\* lines 47-65: the record of the row
MapRow(entry, cs, vals) ==
    [model |-> entry.label,
     pk |-> Pk(cs, vals),
     fields |->
        [m \in {entry.colmap[c] : c \in FieldCols(entry.colmap, cs, vals)} |->
            LET c == CHOOSE c \in FieldCols(entry.colmap, cs, vals) : entry.colmap[c] = m
            IN  Coerce(m, Get(cs, vals, c))]]

\* the first row of rs that raises, 0 if none
RaiseAt(entry, cs, rs) ==
    IF \E i \in 1..Len(rs) : MapRaises(entry.colmap, cs, rs[i])
    THEN CHOOSE i \in 1..Len(rs) :
            /\ MapRaises(entry.colmap, cs, rs[i])
            /\ \A j \in 1..(i - 1) : ~MapRaises(entry.colmap, cs, rs[j])
    ELSE 0

\* lines 44-65: the records appended for the block, up to a row that raises
Mapped(t, cs, rs) ==
    IF t \notin DOMAIN TABLE_TO_FIXTURE THEN <<>>
    ELSE LET entry == TABLE_TO_FIXTURE[t]
             n == IF RaiseAt(entry, cs, rs) = 0 THEN Len(rs)
                  ELSE RaiseAt(entry, cs, rs) - 1
         IN  [i \in 1..n |-> MapRow(entry, cs, rs[i])]

BlockRaises(t, cs, rs) ==
    t \in DOMAIN TABLE_TO_FIXTURE /\ RaiseAt(TABLE_TO_FIXTURE[t], cs, rs) # 0

\* lines 29-35 and 66-67: the outer loop reads a line that is not past the end
gf_scan ==
    /\ gpc = "scan"
    /\ pos < Len(stream)
    /\ pos' = pos + 1
    /\ IF stream[pos + 1].kind = "copy"
       THEN /\ table' = stream[pos + 1].table
            /\ cols' = stream[pos + 1].cols
            /\ rows' = <<>>
            /\ blockBase' = Len(fixtures)
            /\ gpc' = "block"
       ELSE UNCHANGED <<table, cols, rows, blockBase, gpc>>
    /\ UNCHANGED <<stream, fixtures, eofInBlock, out>>
    /\ UNCHANGED repairVars

\* lines 36-42: a line of the block that is not the terminator is a row
gf_row ==
    /\ gpc = "block"
    /\ pos < Len(stream)
    /\ stream[pos + 1].kind # "term"
    /\ rows' = Append(rows, stream[pos + 1].cells)
    /\ pos' = pos + 1
    /\ UNCHANGED <<stream, gpc, table, cols, fixtures, blockBase, eofInBlock, out>>
    /\ UNCHANGED repairVars

\* lines 37-41 and 44-65: the inner loop breaks at the terminator or at the end
\* of the stream, and the rows read are mapped
gf_end_block ==
    /\ gpc = "block"
    /\ IF pos = Len(stream) THEN TRUE ELSE stream[pos + 1].kind = "term"
    /\ eofInBlock' = (pos = Len(stream))
    /\ pos' = IF pos = Len(stream) THEN pos ELSE pos + 1
    /\ fixtures' = fixtures \o Mapped(table, cols, rows)
    /\ gpc' = IF BlockRaises(table, cols, rows) THEN "raised" ELSE "scan"
    /\ UNCHANGED <<stream, table, cols, rows, blockBase, out>>
    /\ UNCHANGED repairVars

\* lines 69-79: one file per model label that has records
gf_write ==
    /\ gpc = "scan"
    /\ pos = Len(stream)
    /\ out' = {[name |-> l,
                items |-> SelectSeq(fixtures, LAMBDA o : o.model = l)] :
                    l \in {fixtures[i].model : i \in 1..Len(fixtures)}}
    /\ gpc' = "done"
    /\ UNCHANGED <<stream, pos, table, cols, rows, fixtures, blockBase, eofInBlock>>
    /\ UNCHANGED repairVars

(***************************************************************************)
(* The dumps generate_fixtures is run on.  A line is a COPY header, the    *)
(* terminator \. or any other line; cells is line.rstrip('\n').split('\t'),*)
(* which is what the line is when it is read as a row of a block.          *)
(***************************************************************************)
\* the text of a COPY line is one cell that begins "COPY public."; it is never
\* empty, a number or all digits, and is written COPY here
CopyLine(t, cs) ==
    [kind |-> "copy", table |-> t, cols |-> cs, cells |-> <<<<"C", "O", "P", "Y">>>>]
TermLine == [kind |-> "term", cells |-> <<<<"\\", ".">>>>]
DataLine(cells) == [kind |-> "data", cells |-> cells]

CellPool ==
    {<<>>, <<"1", "2">>, <<"x">>, <<"-", "7">>, <<"u00B2">>, <<"u0663">>,
     <<"u00A0", "5", "\f">>}

WideRows == UNION {[1..n -> CellPool] : n \in 1..3}
FillerRows == {<<<<"1", "2">>, <<"1", "2">>, <<"1", "2">>>>, <<<<>>>>}

ScoringCols == <<"id", "goals", "game_id">>
TeamCols == <<"id", "name", "origin_id">>

Headers ==
    {CopyLine("_core_scoring", ScoringCols), CopyLine("_core_team", TeamCols),
     CopyLine("_core_event", ScoringCols), DataLine(<<<<>>>>)}

Tails ==
    {<<>>,
     <<TermLine>>,
     <<TermLine, CopyLine("_core_team", TeamCols), DataLine(<<<<"1", "2">>, <<"x">>>>)>>,
     <<TermLine, DataLine(<<<<"x">>>>), CopyLine("_core_scoring", ScoringCols),
       DataLine(<<<<"1", "2">>, <<"1", "2">>, <<"1", "2">>>>), TermLine>>,
     <<CopyLine("_core_team", TeamCols), TermLine>>}

Streams ==
    {<<h>> \o [i \in 1..Len(rs) |-> DataLine(rs[i])] \o t :
        h \in Headers, rs \in ListsOf(WideRows, FillerRows, MaxRows), t \in Tails}

RepairOff ==
    /\ path = "none" /\ file = NoFile /\ bak = NoFile /\ fixed = NoFile
    /\ fixedBak = NoFile /\ target = "file"
    /\ pc = "off" /\ pending = <<>> /\ preInv = NoFile /\ changePre = NoFile
    /\ last = NoReport /\ prev = NoReport

InitExtract ==
    /\ stream \in Streams
    /\ pos = 0 /\ gpc = "scan"
    /\ table = "" /\ cols = <<>> /\ rows = <<>> /\ fixtures = <<>>
    /\ blockBase = 0 /\ eofInBlock = FALSE /\ out = {}
    /\ RepairOff

NextExtract ==
    \/ gf_scan
    \/ gf_row
    \/ gf_end_block
    \/ gf_write

SpecExtract == InitExtract /\ [][NextExtract]_vars

(***************************************************************************)
(* Properties of the repair passes, checked under Spec.                    *)
(***************************************************************************)
Count(q, x) == Cardinality({i \in 1..Len(q) : q[i] = x})

\* an invocation that ran to its end and returned
Returned(r) == r.result \in {"ok", "parse_error"}

\* YYYY-MM-DD HH:MM:SS and nothing more
NaiveForm(s) ==
    /\ Len(s) = 19
    /\ \A i \in {1, 2, 3, 4, 6, 7, 9, 10, 12, 13, 15, 16, 18, 19} : s[i] \in Digits
    /\ s[5] = "-" /\ s[8] = "-" /\ s[11] = " " /\ s[14] = ":" /\ s[17] = ":"

\* YYYY-MM-DDTHH:MM:SSZ and nothing more
CanonForm(s) ==
    /\ Len(s) = 20
    /\ \A i \in {1, 2, 3, 4, 6, 7, 9, 10, 12, 13, 15, 16, 18, 19} : s[i] \in Digits
    /\ s[5] = "-" /\ s[8] = "-" /\ s[11] = "T" /\ s[14] = ":" /\ s[17] = ":"
    /\ s[20] = "Z"

\* the (object, field) pairs of a list of objects
Pairs(data) ==
    UNION {{<<i, k>> : k \in DOMAIN FieldsOf(data[i])} : i \in 1..Len(data)}

\* the file the latest pass repaired, and its backup
Subject == IF last.op = "validate" THEN FileOf(target) ELSE file
SubjectBak == IF last.op = "validate" /\ target = "fixed" THEN fixedBak ELSE bak

\* C1: a validate_file invocation that follows a validate_file invocation on
\* the same file that returned, with nothing run in between, finds nothing to
\* fix, starts no write, and leaves the files and the backups as they are.
C1_Idempotent ==
    [][(validate_file /\ last.op = "validate" /\ Returned(last) /\ target' = target)
        => /\ last'.result = last.result
           /\ last'.fixed = {} /\ last'.wrote = FALSE
           /\ pc' = "idle" /\ file' = file /\ bak' = bak
           /\ fixed' = fixed /\ fixedBak' = fixedBak]_vars

\* a second validate_file has returned after a first one that rewrote the file
C1_Witness ==
    /\ pc = "idle" /\ target = "file"
    /\ last.op = "validate" /\ last.result = "ok" /\ ~last.wrote
    /\ prev.op = "validate" /\ prev.result = "ok" /\ prev.wrote
    /\ file = Dumps(file.data)

\* C2: once an invocation of a repair pass has returned, the backup, if there
\* is one, holds what the file held before the latest invocation that changed
\* the file.
C2_BackupIsPriorContents ==
    (pc = "idle" /\ last.result = "ok" /\ bak.kind # "none") => bak = changePre

\* C3: while validate_file rewrites a file, the file is whole at every step,
\* the old text or the new, and it differs from the old text only once the
\* backup holds the old text.
C3_BackupThenAtomicOverwrite ==
    (last.op = "validate" /\ last.result \in {"running", "killed", "ok"})
        => /\ Subject.kind = "json"
           /\ Subject # preInv => SubjectBak = preInv

\* every boolean-semantic field holds a boolean and every timestamp is canonical
AllCanonical(data) ==
    \A ik \in Pairs(data) :
        LET v == data[ik[1]].fields[ik[2]]
        IN  /\ ik[2] \in BoolFields => v.t = "bool"
            /\ (IsStr(v) /\ ReDate(v.v)) => CanonForm(v.v)

\* C4: a validate_file invocation that finds no field to fix, as it does when
\* every boolean-semantic field is a boolean and every timestamp canonical,
\* reports no fix, starts no write and leaves the file and the backup as they are.
C4_NoChangeNoWrite ==
    [][validate_file
        => /\ (FileOf(target').kind = "json" /\ AllCanonical(FileOf(target').data))
                => last'.fixed = {}
           /\ last'.fixed = {}
                => /\ last'.wrote = FALSE /\ pc' = "idle"
                   /\ file' = file /\ bak' = bak
                   /\ fixed' = fixed /\ fixedBak' = fixedBak]_vars

\* validate_file has found nothing to fix in a file of canonical records whose
\* backup, written by an earlier invocation, exists
C4_Witness ==
    /\ pc = "idle" /\ target = "file"
    /\ last.op = "validate" /\ last.result = "ok" /\ last.fixed = {}
    /\ file.kind = "json" /\ file.data # <<>> /\ AllCanonical(file.data)
    /\ \E ik \in Pairs(file.data) : file.data[ik[1]].fields[ik[2]].t = "bool"
    /\ bak.kind = "json" /\ bak # file

\* the elements of a groups value that is a list
Members(fields) ==
    IF "groups" \in DOMAIN fields /\ fields["groups"].t = "list"
    THEN fields["groups"].v ELSE <<>>

\* C7: a run of normalize_auth_users leaves every authman.user record with
\* sentinel 1 exactly once in groups if is_superuser is true and sentinel 2
\* exactly once if role is team_manager; no member of the list is lost and a
\* sentinel that was in the list gains no further occurrence.
C7_SentinelsOnce ==
    [][(normalize_auth_users /\ last'.result = "ok")
        => \A i \in 1..Len(file.data) :
            file.data[i].model = AuthUser =>
                LET new == file'.data[i].fields
                    og == Members(file.data[i].fields)
                    ng == Members(new)
                IN  /\ ("is_superuser" \in DOMAIN new /\ new["is_superuser"] = JBool(TRUE))
                        => Count(ng, JInt(1)) = 1
                    /\ ("role" \in DOMAIN new /\ new["role"] = JStr(TeamManager))
                        => Count(ng, JInt(2)) = 1
                    /\ \A g \in Range(og) \cup {JInt(1), JInt(2)} :
                        /\ Count(ng, g) >= Count(og, g)
                        /\ (g \in {JInt(1), JInt(2)} /\ Count(og, g) >= 1)
                                => Count(ng, g) = Count(og, g)]_vars

\* C8 as stated: when validate_file has returned, every string field that
\* held YYYY-MM-DD HH:MM:SS holds that value with T for the space and Z
\* appended, and every field that held YYYY-MM-DDTHH:MM:SSZ holds it still and
\* no fix was reported for it.
C8_NaiveRewritten ==
    (pc = "idle" /\ last.op = "validate" /\ last.result = "ok")
        => \A ik \in Pairs(preInv.data) :
            LET v == preInv.data[ik[1]].fields[ik[2]]
                w == Subject.data[ik[1]].fields[ik[2]]
            IN  IsStr(v) =>
                    /\ NaiveForm(v.v) => w = JStr([v.v EXCEPT ![11] = "T"] \o <<"Z">>)
                    /\ CanonForm(v.v) => w = v /\ ik \notin last.fixed

\* C8 amended: when validate_file has returned, every string field of a record
\* that carries a model label that held YYYY-MM-DD HH:MM:SS holds that value
\* with T for the space and Z appended; every string field of a record without
\* a model label holds what it held, naive or not, and no fix was reported for
\* it; and every field that held YYYY-MM-DDTHH:MM:SSZ holds it still and no
\* fix was reported for it.
C8_NaiveToCanonical ==
    (pc = "idle" /\ last.op = "validate" /\ last.result = "ok")
        => \A ik \in Pairs(preInv.data) :
            LET v == preInv.data[ik[1]].fields[ik[2]]
                w == Subject.data[ik[1]].fields[ik[2]]
            IN  IsStr(v) =>
                    /\ (preInv.data[ik[1]].model # <<>> /\ NaiveForm(v.v))
                            => w = JStr([v.v EXCEPT ![11] = "T"] \o <<"Z">>)
                    /\ preInv.data[ik[1]].model = <<>>
                            => w = v /\ ik \notin last.fixed
                    /\ CanonForm(v.v) => w = v /\ ik \notin last.fixed

\* a validate_file that rewrote a naive timestamp was followed by one that
\* found the canonical value and left it
C8_Witness ==
    /\ pc = "idle" /\ target = "file"
    /\ last.op = "validate" /\ last.result = "ok"
    /\ prev.op = "validate" /\ prev.result = "ok"
    /\ <<1, "last_login">> \in prev.fixed
    /\ file.data[1].fields["last_login"] = JStr(Canon)
    /\ preInv = file

\* C9: a repair pass that has returned has turned a string of a record it
\* scanned into a boolean exactly when the field is boolean-semantic and the
\* string one of "1", "0", "true", "True" ("0" to false, the others to true),
\* and has left every other string of a boolean-semantic field, and every "1"
\* or "0" of another field, as it was.
C9_BooleanStrings ==
    (pc = "idle" /\ last.op \in {"validate", "auth"} /\ last.result = "ok")
        => \A ik \in Pairs(preInv.data) :
            LET v == preInv.data[ik[1]].fields[ik[2]]
                w == Subject.data[ik[1]].fields[ik[2]]
                boolean == /\ ik[2] \in BoolFields
                           /\ v.v \in {<<"1">>, <<"0">>, <<"t", "r", "u", "e">>,
                                       <<"T", "r", "u", "e">>}
            IN  (preInv.data[ik[1]].model = AuthUser /\ IsStr(v)) =>
                    /\ boolean => w = JBool(v.v # <<"0">>)
                    /\ (~boolean /\ (ik[2] \in BoolFields \/ ik[2] = "role")) => w = v

\* the records before and after the latest pass, when it has returned
PassRan == pc = "idle" /\ last.op \in {"validate", "auth", "convert"} /\ last.result = "ok"
Before == IF last.op = "convert" THEN file.data ELSE preInv.data
After == IF last.op = "convert" THEN fixed.data ELSE Subject.data

\* C10: after any repair pass every record has every field name it had before
\* the pass.
C10_FieldNamesKept ==
    PassRan => \A i \in 1..Len(Before) :
                    DOMAIN FieldsOf(Before[i]) \subseteq DOMAIN FieldsOf(After[i])

(***************************************************************************)
(* Properties of the extraction, checked under SpecExtract.                *)
(***************************************************************************)
\* C5: when the stream has ended inside a COPY block the run has stopped with
\* an error, and no row of that block has become a record.
C5_TruncatedIsError ==
    eofInBlock => gpc = "raised" /\ Len(fixtures) = blockBase

\* C6: mapping a row never raises, whatever its cells are.
C6_CoercionTotal == gpc # "raised"

\* the cell of row under column c of the header cs: <<>> when the cell is
\* empty or the row is too short to have it
CellUnder(cs, row, c) ==
    IF \E p \in 1..Len(cs) : cs[p] = c /\ p <= Len(row)
    THEN row[CHOOSE p \in 1..Len(cs) : cs[p] = c /\ p <= Len(row)]
    ELSE <<>>

\* the records appended for the block read last, each with its row
BlockRecords == 1..(Len(fixtures) - blockBase)

\* C11: a record made from a row has a key for a mapped column (other than
\* id, the primary key) exactly when the row has a non-empty cell for it, and
\* no field of it is null or the empty string.
C11_EmptyOmitted ==
    \A i \in BlockRecords :
        LET rec == fixtures[blockBase + i]
            colmap == TABLE_TO_FIXTURE[table].colmap
        IN  /\ \A c \in DOMAIN colmap \ {"id"} :
                colmap[c] \in DOMAIN rec.fields <=> CellUnder(cols, rows[i], c) # <<>>
            /\ \A k \in DOMAIN rec.fields :
                rec.fields[k] # JNull /\ rec.fields[k] # JStr(<<>>)

\* the run has written a record of a row with an empty cell between two
\* filled ones, and a record of a row that is one empty cell
C11_Witness ==
    /\ gpc = "done" /\ table = "_core_scoring" /\ Len(fixtures) = blockBase + 2
    /\ \E i \in BlockRecords :
        /\ Len(rows[i]) = 3 /\ rows[i][2] = <<>>
        /\ DOMAIN fixtures[blockBase + i].fields = {"game"}
    /\ \E i \in BlockRecords :
        /\ rows[i] = <<<<>>>>
        /\ fixtures[blockBase + i].fields = <<>>
        /\ fixtures[blockBase + i].pk = JNull

\* C12: a validate_file invocation on a file that parses returns whatever the
\* model labels of its records are, changes no label, and has repaired the
\* naive timestamps and the '1' / '0' flags of every record that has a label.
C12_UnknownEntityNonFatal ==
    (pc = "idle" /\ last.op = "validate" /\ preInv.kind = "json"
        /\ last.result # "killed")
        => /\ last.result = "ok"
           /\ Subject.kind = "json" /\ Len(Subject.data) = Len(preInv.data)
           /\ \A i \in 1..Len(preInv.data) : Subject.data[i].model = preInv.data[i].model
           /\ \A ik \in Pairs(preInv.data) :
                LET v == preInv.data[ik[1]].fields[ik[2]]
                    w == Subject.data[ik[1]].fields[ik[2]]
                IN  (preInv.data[ik[1]].model # <<>> /\ IsStr(v)) =>
                        /\ NaiveForm(v.v) => w = JStr([v.v EXCEPT ![11] = "T"] \o <<"Z">>)
                        /\ (ik[2] \in BoolFields /\ v.v \in {<<"1">>, <<"0">>})
                                => w = JBool(v.v = <<"1">>)

\* a zone designator: Z, +hh, -hh, +hh:mm or -hh:mm
IsZone(z) ==
    \/ z = <<"Z">>
    \/ /\ Len(z) \in {3, 6}
       /\ z[1] \in {"+", "-"} /\ z[2] \in Digits /\ z[3] \in Digits
       /\ Len(z) = 6 => (z[4] = ":" /\ z[5] \in Digits /\ z[6] \in Digits)

\* a date, a space or a T, a time, and exactly one zone designator
OneZone(s) ==
    /\ ReDate(s) /\ ReTime(s) /\ s[11] \in {" ", "T"}
    /\ IsZone(From(s, 19))

\* C13: after a validate_file or a normalize_auth_users that returned, a
\* field that held a timestamp with exactly one zone designator holds the
\* same text, but for a T in place of the space, so still one designator and
\* no Z appended; and for such a value of a timestamp field of a user record
\* the two passes give the same result in either order.
C13_NoSecondZone ==
    (pc = "idle" /\ last.op \in {"validate", "auth"} /\ last.result = "ok"
        /\ preInv.kind = "json" /\ Subject.kind = "json")
        => \A ik \in Pairs(preInv.data) :
            LET v == preInv.data[ik[1]].fields[ik[2]]
                w == Subject.data[ik[1]].fields[ik[2]]
            IN  (IsStr(v) /\ OneZone(v.v)) =>
                    /\ IsStr(w) /\ OneZone(w.v)
                    /\ w.v \in {v.v, [v.v EXCEPT ![11] = "T"]}
                    /\ (preInv.data[ik[1]].model = AuthUser /\ ik[2] \in DtFields)
                        => NauDt(VfValue(ik[2], v)) = VfValue(ik[2], NauDt(v))

====
